---- MODULE Spec2Model ----
(***************************************************************************)
(* The request handler of waiter (src/src/main.rs): one closure call per   *)
(* request, run against the working directory as file root.  The closure   *)
(* is modelled step by step, one action per filesystem access or rewriting *)
(* stage, so that other processes can change the directory in between.     *)
(*                                                                         *)
(* Strings are TLA+ strings; ends_with and contains are computed on their  *)
(* characters.  A response is a record of status_code, headers (a sequence *)
(* of <<name, value>> pairs, as in rouille) and data (<<kind, payload>>).  *)
(* An Option is <<>> for None and <<v>> for Some(v).                       *)
(***************************************************************************)
EXTENDS Integers, Sequences, FiniteSets, TLC

VARIABLES
    fs,        \* names of the regular files present in the root directory
    request,   \* the request being handled
    matched,   \* what match_assets returned (line 22)
    response,  \* the closure's local `response`
    pc,        \* position of the closure
    index,     \* position of find_index's iterator in possible_indexes
    before4,   \* `response` as it was handed to set_correct_mime_type
    returned   \* number of responses the closure has returned for `request`

vars == <<fs, request, matched, response, pc, index, before4, returned>>

----------------------------------------------------------------------------
(* Program constants                                                        *)

CACHE_TIME_ASSETS == 31536000

CACHE_TIME_CONTENT == 43200

\* find_index with index.html tried before index.htmd and index.txt
possible_indexes_html_first ==
    << <<"index.html", "text/html">>,
       <<"index.htmd", "text/htmd">>,
       <<"index.txt", "text/plain">>,
       <<"index.xml", "text/xml">> >>

possible_indexes ==
    << <<"index.htmd", "text/htmd">>,
       <<"index.txt", "text/plain">>,
       <<"index.html", "text/html">>,
       <<"index.xml", "text/xml">> >>

asset_file_types ==
    <<".ico", ".jpg", ".jpeg", ".png", ".webp", ".gif", ".svg", ".woff", ".woff2">>

----------------------------------------------------------------------------
(* The inputs: files that may exist, and the requests that may arrive       *)

IndexFiles == {possible_indexes[i][1] : i \in DOMAIN possible_indexes}

OtherFiles == {"notes.htmd", "logo.png"}

Files == IndexFiles \cup OtherFiles

Urls ==
    {"/", "/index.htmd", "/index.html", "/notes.htmd", "/logo.png",
     "/missing", "/missing.htmd", "/missing.woff2", "/missing.PNG"}

Accepts == {<<>>, <<"text/htmd">>, <<"text/plain">>, <<"text/html, text/htmd;q=0.9">>}

\* rouille derives a file's ETag from its modification time
FileEtag == "1700000000"

IfNoneMatches == {<<>>, <<FileEtag>>}

Requests ==
    [url : Urls, accept : Accepts, if_none_match : IfNoneMatches]

NoRequest == [url |-> "", accept |-> <<>>, if_none_match |-> <<>>]

----------------------------------------------------------------------------
(* str::ends_with, str::contains, Option::unwrap_or                         *)

EndsWith(s, suffix) ==
    /\ Len(s) >= Len(suffix)
    /\ SubSeq(s, Len(s) - Len(suffix) + 1, Len(s)) = suffix

Contains(s, sub) ==
    \E i \in 1..(Len(s) - Len(sub) + 1) : SubSeq(s, i, i + Len(sub) - 1) = sub

UnwrapOr(opt, default) == IF opt = <<>> THEN default ELSE opt[1]

----------------------------------------------------------------------------
(* rouille::Response and the methods the handler calls on it                *)

HeaderPositions(headers, name) == {i \in DOMAIN headers : headers[i][1] = name}

HasHeader(r, name) == HeaderPositions(r.headers, name) # {}

\* the value of the first header called `name`
HeaderValue(r, name) ==
    LET ps == HeaderPositions(r.headers, name)
    IN  r.headers[CHOOSE i \in ps : \A j \in ps : i <= j][2]

RECURSIVE KeepPositions(_, _, _)
KeepPositions(headers, keep, i) ==
    IF i > Len(headers) THEN <<>>
    ELSE (IF i \in keep THEN <<headers[i]>> ELSE <<>>)
             \o KeepPositions(headers, keep, i + 1)

\* Response::with_additional_header: appends, whatever is there
with_additional_header(r, name, value) ==
    [r EXCEPT !.headers = Append(r.headers, <<name, value>>)]

\* Response::with_unique_header: the first header of that name gets the value,
\* the others of that name are removed; without one the header is appended.
with_unique_header(r, name, value) ==
    LET ps == HeaderPositions(r.headers, name)
    IN  IF ps = {}
        THEN [r EXCEPT !.headers = Append(r.headers, <<name, value>>)]
        ELSE LET first == CHOOSE i \in ps : \A j \in ps : i <= j
                 keep == (DOMAIN r.headers \ ps) \cup {first}
                 set == [r.headers EXCEPT ![first] = <<name, value>>]
             IN  [r EXCEPT !.headers = KeepPositions(set, keep, 1)]

without_header(r, name) ==
    [r EXCEPT !.headers = SelectSeq(r.headers, LAMBDA h : h[1] # name)]

\* Response::with_public_cache
with_public_cache(r, max_age_seconds) ==
    without_header(
        without_header(
            with_unique_header(r, "Cache-Control",
                               "public, max-age=" \o ToString(max_age_seconds)),
            "Expires"),
        "Pragma")

\* Response::text
Response_text(text) ==
    [status_code |-> 200,
     headers |-> << <<"Content-Type", "text/plain; charset=utf-8">> >>,
     data |-> <<"text", text>>]

\* Response::from_file
Response_from_file(content_type, filename) ==
    [status_code |-> 200,
     headers |-> << <<"Content-Type", content_type>> >>,
     data |-> <<"file", filename>>]

\* Response::empty_404
Response_empty_404 ==
    [status_code |-> 404, headers |-> <<>>, data |-> <<"empty", "">>]

with_status_code(r, code) == [r EXCEPT !.status_code = code]

\* Response::is_success: the range [200, 399]
is_success(r) == r.status_code >= 200 /\ r.status_code < 400

\* Response::with_etag: sets ETag and turns a 2xx response into an empty 304
\* when the request's If-None-Match equals it
with_etag(r, req, etag) ==
    LET tagged == with_unique_header(r, "ETag", etag)
    IN  IF /\ tagged.status_code >= 200
           /\ tagged.status_code < 300
           /\ req.if_none_match = <<etag>>
        THEN [tagged EXCEPT !.status_code = 304, !.data = <<"empty", "">>]
        ELSE tagged

----------------------------------------------------------------------------
(* rouille::match_assets(request, ".")                                      *)

\* the url's components pushed onto the root: "/logo.png" names logo.png,
\* "/" names the root directory itself
FileOf(url) == SubSeq(url, 2, Len(url))

RECURSIVE LastDot(_, _)
LastDot(s, i) ==
    IF i = 0 THEN 0
    ELSE IF SubSeq(s, i, i) = "." THEN i ELSE LastDot(s, i - 1)

\* Path::extension
Extension(filename) ==
    LET d == LastDot(filename, Len(filename))
    IN  IF d <= 1 THEN "" ELSE SubSeq(filename, d + 1, Len(filename))

\* rouille::extension_to_mime, for the extensions of Files
extension_to_mime(ext) ==
    CASE ext = "png" -> "image/png"
      [] ext = "txt" -> "text/plain; charset=utf8"
      [] ext = "html" -> "text/html; charset=utf8"
      [] OTHER -> "application/octet-stream"

match_assets(req, files) ==
    IF FileOf(req.url) \in files
    THEN with_public_cache(
             with_etag(
                 Response_from_file(extension_to_mime(Extension(FileOf(req.url))),
                                    FileOf(req.url)),
                 req, FileEtag),
             3600)
    ELSE Response_empty_404

----------------------------------------------------------------------------
(* The handler's functions                                                  *)

\* serve_404 without with_status_code
serve_404_status_kept ==
    Response_text("Resource was not found on this server")

serve_404 ==
    with_status_code(Response_text("Resource was not found on this server"), 404)

is_static_asset(filename) ==
    \E i \in DOMAIN asset_file_types : EndsWith(filename, asset_file_types[i])

\* the asset classification dropped
get_cache_time_always_content(filename) == CACHE_TIME_CONTENT

get_cache_time_for_filetype(filename) ==
    IF is_static_asset(filename) THEN CACHE_TIME_ASSETS ELSE CACHE_TIME_CONTENT

\* the Cache-Control header added instead of set
set_cache_time_append(r, request_url) ==
    with_additional_header(r, "Cache-Control",
        "public, max-age=" \o ToString(get_cache_time_for_filetype(request_url)))

set_cache_time(r, request_url) ==
    with_public_cache(r, get_cache_time_for_filetype(request_url))

\* meaningful only for a response that has a Content-Type (the code unwraps)
current_response_has_htmd_content_type(r) ==
    Contains(HeaderValue(r, "Content-Type"), "text/htmd")

\* `||` evaluates its right side only when the left side is false
is_htmd_file(r, req) ==
    EndsWith(req.url, ".htmd") \/ current_response_has_htmd_content_type(r)

\* the unwrap in current_response_has_htmd_content_type is reached and fails
ContentTypeLookupFails(r, req) ==
    ~EndsWith(req.url, ".htmd") /\ ~HasHeader(r, "Content-Type")

\* the Accept header compared whole instead of searched
accepts_htmd_exact(req) == UnwrapOr(req.accept, "*/*") = "text/htmd"

accepts_htmd_mime_type(req) ==
    Contains(UnwrapOr(req.accept, "*/*"), "text/htmd")

\* the negotiation applied to every response, htmd or not
set_mime_type_always(r, req) ==
    IF accepts_htmd_mime_type(req)
    THEN with_unique_header(r, "Content-Type", "text/htmd")
    ELSE with_unique_header(r, "Content-Type", "text/plain")

set_correct_mime_type(r, req) ==
    IF is_htmd_file(r, req)
    THEN IF accepts_htmd_mime_type(req)
         THEN with_unique_header(r, "Content-Type", "text/htmd")
         ELSE with_unique_header(r, "Content-Type", "text/plain")
    ELSE r

\* the Server header appended instead of set
set_server_header_append(r) ==
    [r EXCEPT !.headers = Append(r.headers, <<"Server", "waiter (Rust)">>)]

set_server_header(r) == with_unique_header(r, "Server", "waiter (Rust)")

\* a failed open turned into the 404 response instead of a panic
serve_file_or_404(filename, mime_type, files) ==
    IF filename \in files THEN <<Response_from_file(mime_type, filename)>>
    ELSE <<serve_404>>

\* File::open(filename).unwrap() then Response::from_file; <<>> is the panic
serve_file(filename, mime_type, files) ==
    IF filename \in files THEN <<Response_from_file(mime_type, filename)>> ELSE <<>>

\* lines 32-34 of the closure, applied to a response that has a Content-Type
RewriteHeaders(r, req) ==
    set_server_header(set_correct_mime_type(set_cache_time(r, req.url), req))

----------------------------------------------------------------------------
(* The state machine                                                        *)

PcValues ==
    {"idle", "match_assets", "fallback", "find_index", "open", "set_cache_time",
     "set_correct_mime_type", "set_server_header", "done", "panicked"}

IsResponse(r) ==
    /\ DOMAIN r = {"status_code", "headers", "data"}
    /\ r.status_code \in {200, 304, 404}
    /\ \A i \in DOMAIN r.headers : Len(r.headers[i]) = 2
    /\ r.data[1] \in {"empty", "text", "file"}

TypeOK ==
    /\ fs \subseteq Files
    /\ request \in Requests \cup {NoRequest}
    /\ IsResponse(matched)
    /\ IsResponse(response)
    /\ IsResponse(before4)
    /\ pc \in PcValues
    /\ index \in DOMAIN possible_indexes
    /\ returned \in {0, 1}

Init ==
    /\ fs \in SUBSET Files
    /\ request = NoRequest
    /\ matched = Response_empty_404
    /\ response = Response_empty_404
    /\ pc = "idle"
    /\ index = 1
    /\ before4 = Response_empty_404
    /\ returned = 0

\* the listener calls the closure with a request
Receive ==
    /\ pc = "idle"
    /\ \E req \in Requests : request' = req
    /\ matched' = Response_empty_404
    /\ response' = Response_empty_404
    /\ before4' = Response_empty_404
    /\ index' = 1
    /\ returned' = 0
    /\ pc' = "match_assets"
    /\ UNCHANGED fs

\* line 22
MatchAssets ==
    /\ pc = "match_assets"
    /\ matched' = match_assets(request, fs)
    /\ response' = matched'
    /\ pc' = "fallback"
    /\ UNCHANGED <<fs, request, index, before4, returned>>

\* the non-success response of match_assets kept for a path other than "/"
FallbackKeepsMiss(r, req) == r

\* what lines 24-30 leave in `response` when no index lookup is needed
FallbackResponse(r, req) ==
    IF is_success(r) THEN r ELSE serve_404

\* lines 24-30; serve_index starts find_index's scan
Fallback ==
    /\ pc = "fallback"
    /\ IF ~is_success(response) /\ request.url = "/"
       THEN /\ pc' = "find_index"
            /\ index' = 1
            /\ UNCHANGED response
       ELSE /\ response' = FallbackResponse(response, request)
            /\ pc' = "set_cache_time"
            /\ UNCHANGED index
    /\ UNCHANGED <<fs, request, matched, before4, returned>>

\* one Path::exists of find_index's scan (lines 55-58), and serve_index's
\* None arm when the scan ends without a hit
FindIndex ==
    /\ pc = "find_index"
    /\ IF possible_indexes[index][1] \in fs
       THEN /\ pc' = "open"
            /\ UNCHANGED <<index, response>>
       ELSE IF index < Len(possible_indexes)
            THEN /\ index' = index + 1
                 /\ UNCHANGED <<pc, response>>
            ELSE /\ response' = serve_404
                 /\ pc' = "set_cache_time"
                 /\ UNCHANGED index
    /\ UNCHANGED <<fs, request, matched, before4, returned>>

\* serve_index's Some arm: serve_file on the entry find_index returned
OpenIndex ==
    /\ pc = "open"
    /\ LET opened == serve_file(possible_indexes[index][1],
                                possible_indexes[index][2], fs)
       IN  IF opened = <<>>
           THEN /\ pc' = "panicked"
                /\ UNCHANGED response
           ELSE /\ response' = opened[1]
                /\ pc' = "set_cache_time"
    /\ UNCHANGED <<fs, request, matched, index, before4, returned>>

\* line 32
SetCacheTime ==
    /\ pc = "set_cache_time"
    /\ response' = set_cache_time(response, request.url)
    /\ pc' = "set_correct_mime_type"
    /\ UNCHANGED <<fs, request, matched, index, before4, returned>>

\* line 33
SetCorrectMimeType ==
    /\ pc = "set_correct_mime_type"
    /\ before4' = response
    /\ IF ContentTypeLookupFails(response, request)
       THEN /\ pc' = "panicked"
            /\ UNCHANGED response
       ELSE /\ response' = set_correct_mime_type(response, request)
            /\ pc' = "set_server_header"
    /\ UNCHANGED <<fs, request, matched, index, returned>>

\* lines 34-36: the closure returns `response`
SetServerHeader ==
    /\ pc = "set_server_header"
    /\ response' = set_server_header(response)
    /\ returned' = returned + 1
    /\ pc' = "done"
    /\ UNCHANGED <<fs, request, matched, index, before4>>

\* the closure call is over (returned or unwound); the listener goes on
Finish ==
    /\ pc \in {"done", "panicked"}
    /\ pc' = "idle"
    /\ UNCHANGED <<fs, request, matched, response, index, before4, returned>>

\* another process creates or removes a file of the root directory
FsCreate ==
    /\ \E f \in Files \ fs : fs' = fs \cup {f}
    /\ UNCHANGED <<request, matched, response, pc, index, before4, returned>>

FsRemove ==
    /\ \E f \in fs : fs' = fs \ {f}
    /\ UNCHANGED <<request, matched, response, pc, index, before4, returned>>

Handler ==
    \/ Receive
    \/ MatchAssets
    \/ Fallback
    \/ FindIndex
    \/ OpenIndex
    \/ SetCacheTime
    \/ SetCorrectMimeType
    \/ SetServerHeader
    \/ Finish

Next == Handler \/ FsCreate \/ FsRemove

\* the directory may change at any moment of a request's handling
Spec == Init /\ [][Next]_vars

FsCreateIdle == pc = "idle" /\ FsCreate

FsRemoveIdle == pc = "idle" /\ FsRemove

NextQuiet == Handler \/ FsCreateIdle \/ FsRemoveIdle

\* the directory changes only between requests: "filesystem state at call time"
SpecQuiet == Init /\ [][NextQuiet]_vars

----------------------------------------------------------------------------
(* What the properties below compare the handler against                    *)

NotFoundText == "Resource was not found on this server"

AssetSuffixes ==
    {".ico", ".jpg", ".jpeg", ".png", ".webp", ".gif", ".svg", ".woff", ".woff2"}

ExpectedCacheControl(url) ==
    IF \E suffix \in AssetSuffixes : EndsWith(url, suffix)
    THEN "public, max-age=31536000"
    ELSE "public, max-age=43200"

IndexOrder == <<"index.htmd", "index.txt", "index.html", "index.xml">>

IndexMime == <<"text/htmd", "text/plain", "text/html", "text/xml">>

HeaderCount(r, name) == Cardinality(HeaderPositions(r.headers, name))

HeaderSet(r) == {r.headers[i] : i \in DOMAIN r.headers}

NoDuplicateHeader(r) ==
    \A i, j \in DOMAIN r.headers : r.headers[i][1] = r.headers[j][1] => i = j

Is404(r) == r.status_code = 404 /\ r.data = <<"text", NotFoundText>>

\* the closure has returned `response` for a path other than "/" that
\* match_assets did not resolve
Missed == pc = "done" /\ request.url # "/" /\ ~is_success(matched)

\* the response is treated as an htmd document by Stage 4
TreatedAsHtmd ==
    \/ EndsWith(request.url, ".htmd")
    \/ /\ HasHeader(before4, "Content-Type")
       /\ Contains(HeaderValue(before4, "Content-Type"), "text/htmd")

----------------------------------------------------------------------------
\* C1 (as stated): every request for a path other than "/" that static file
\* resolution does not satisfy is answered 404 with the body "Resource was not
\* found on this server", Cache-Control max-age=43200 and a Server header.
C1_NotFoundMaxAge43200 ==
    Missed =>
        /\ Is404(response)
        /\ HasHeader(response, "Cache-Control")
        /\ Contains(HeaderValue(response, "Cache-Control"), "max-age=43200")
        /\ HasHeader(response, "Server")

\* C1 (amended): such a request is answered 404 with that body, a Server header
\* and one Cache-Control header whose max-age is 43200, or 31536000 when the
\* path ends with an asset suffix.
C1_NotFound ==
    Missed =>
        /\ Is404(response)
        /\ HeaderCount(response, "Cache-Control") = 1
        /\ HeaderValue(response, "Cache-Control") = ExpectedCacheControl(request.url)
        /\ HasHeader(response, "Server")

C1_Witness ==
    /\ Missed
    /\ request.url = "/missing.woff2"
    /\ "index.htmd" \in fs
    /\ Is404(response)
    /\ HeaderValue(response, "Cache-Control") = "public, max-age=31536000"

----------------------------------------------------------------------------
\* C2 (as stated): every returned response carries one public Cache-Control
\* whose max-age the request path alone decides (31536000 for an asset suffix,
\* 43200 otherwise), and a request for an existing file is answered 200.
C2_ExistingFileIs200 ==
    pc = "done" =>
        /\ HeaderCount(response, "Cache-Control") = 1
        /\ HeaderValue(response, "Cache-Control") = ExpectedCacheControl(request.url)
        /\ FileOf(request.url) \in fs => response.status_code = 200

\* C2 (amended): as stated, but a request for an existing file is answered 200
\* with the file, or 304 with no body when its If-None-Match equals the
\* file's ETag.
C2_CacheByPath ==
    pc = "done" =>
        /\ HeaderCount(response, "Cache-Control") = 1
        /\ HeaderValue(response, "Cache-Control") = ExpectedCacheControl(request.url)
        /\ FileOf(request.url) \in fs =>
              IF request.if_none_match = <<HeaderValue(response, "ETag")>>
              THEN response.status_code = 304 /\ response.data = <<"empty", "">>
              ELSE /\ response.status_code = 200
                   /\ response.data = <<"file", FileOf(request.url)>>

C2_Witness ==
    /\ pc = "done"
    /\ request.url = "/logo.png"
    /\ "logo.png" \in fs
    /\ response.status_code = 200
    /\ HeaderValue(response, "Cache-Control") = "public, max-age=31536000"

----------------------------------------------------------------------------
\* C3: a request to "/" is answered with the first index document that exists,
\* in the order index.htmd, index.txt, index.html, index.xml, with status 200
\* and its paired mime type as the Content-Type set at selection, whatever the
\* Accept header; with no index document the answer is the 404.
C3_IndexPriority ==
    (pc = "done" /\ request.url = "/") =>
        LET present == {i \in DOMAIN IndexOrder : IndexOrder[i] \in fs}
        IN  IF present = {}
            THEN Is404(response)
            ELSE LET k == CHOOSE i \in present : \A j \in present : i <= j
                 IN  /\ response.status_code = 200
                     /\ response.data = <<"file", IndexOrder[k]>>
                     /\ HeaderValue(before4, "Content-Type") = IndexMime[k]

C3_Witness ==
    /\ pc = "done"
    /\ request.url = "/"
    /\ request.accept = <<"text/htmd">>
    /\ fs \cap IndexFiles = {"index.html", "index.xml"}
    /\ response.data = <<"file", "index.html">>
    /\ HeaderValue(response, "Content-Type") = "text/html"

----------------------------------------------------------------------------
\* C4: a response treated as an htmd document (the path ends with ".htmd" or
\* the Content-Type before Stage 4 contains "text/htmd"), a 404 included, ends
\* with Content-Type "text/htmd" exactly when the Accept header contains
\* "text/htmd" and "text/plain" otherwise; an absent Accept gives "text/plain";
\* Stage 4 changes neither status nor body.
C4_HtmdNegotiation ==
    (pc = "done" /\ TreatedAsHtmd) =>
        /\ HeaderCount(response, "Content-Type") = 1
        /\ HeaderValue(response, "Content-Type") =
               IF request.accept # <<>> /\ Contains(request.accept[1], "text/htmd")
               THEN "text/htmd"
               ELSE "text/plain"
        /\ response.status_code = before4.status_code
        /\ response.data = before4.data

C4_Witness ==
    /\ pc = "done"
    /\ request.url = "/missing.htmd"
    /\ request.accept = <<"text/html, text/htmd;q=0.9">>
    /\ response.status_code = 404
    /\ HeaderValue(before4, "Content-Type") = "text/plain; charset=utf-8"
    /\ HeaderValue(response, "Content-Type") = "text/htmd"

----------------------------------------------------------------------------
\* C5: applying Stages 3 to 5 again, with the same request, to a response the
\* handler has returned gives the same status, body and header values, and no
\* header name twice.
C5_RewriteIdempotent ==
    pc = "done" =>
        LET again == RewriteHeaders(response, request)
        IN  /\ again.status_code = response.status_code
            /\ again.data = response.data
            /\ HeaderSet(again) = HeaderSet(response)
            /\ NoDuplicateHeader(again)
            /\ NoDuplicateHeader(response)

C5_Witness ==
    /\ pc = "done"
    /\ request.url = "/"
    /\ response.data = <<"file", "index.htmd">>
    /\ HeaderValue(before4, "Content-Type") = "text/htmd"
    /\ HeaderValue(response, "Content-Type") = "text/plain"
    /\ RewriteHeaders(response, request) = response

----------------------------------------------------------------------------
\* C6 (as stated): every handler invocation ends having returned exactly one
\* response, also when other processes change the directory meanwhile.
C6_ExactlyOneResponse ==
    pc \in {"done", "panicked"} => returned = 1

----------------------------------------------------------------------------
\* C7: every returned response carries exactly one Server header, with the
\* value "waiter (Rust)"; Stage 5 replaces a Server value that is already there.
C7_ServerHeader ==
    /\ pc = "done" =>
          /\ HeaderCount(response, "Server") = 1
          /\ HeaderValue(response, "Server") = "waiter (Rust)"
    /\ pc = "set_server_header" =>
          LET other == [response EXCEPT
                           !.headers = Append(@, <<"Server", "rouille">>)]
              stamped == set_server_header(other)
          IN  /\ HeaderCount(stamped, "Server") = 1
              /\ HeaderValue(stamped, "Server") = "waiter (Rust)"

C7_Witness ==
    /\ pc = "done"
    /\ response.data = <<"file", "index.txt">>
    /\ HeaderCount(response, "Server") = 1
    /\ HeaderValue(response, "Server") = "waiter (Rust)"

----------------------------------------------------------------------------
\* the index document find_index chose is not there to be opened
ChosenIndexGone == pc = "open" /\ possible_indexes[index][1] \notin fs

\* C8: when the chosen index document is removed before it is opened, the
\* handling ends abnormally at the open: the open is not repeated, no later
\* index document is tried, no 404 is produced, Stages 3 to 5 do not run and
\* nothing is returned.
C8_IndexRaceAborts ==
    /\ [](pc = "panicked" =>
            /\ returned = 0
            /\ response = matched
            /\ response.headers = <<>>)
    /\ [][(ChosenIndexGone /\ pc' # pc) =>
            /\ pc' = "panicked"
            /\ index' = index
            /\ response' = response
            /\ returned' = returned]_vars
    /\ [][pc = "panicked" =>
            /\ pc' \in {"panicked", "idle"}
            /\ response' = response
            /\ returned' = returned]_vars

C8_Witness ==
    /\ pc = "panicked"
    /\ request.url = "/"
    /\ index = 1
    /\ "index.htmd" \notin fs
    /\ "index.txt" \in fs
    /\ returned = 0

----------------------------------------------------------------------------
\* C9: when the path does not end with ".htmd" and the Content-Type before
\* Stage 4 does not contain "text/htmd", the Content-Type after Stage 4, and
\* in the returned response, is the one the earlier stage set, whatever the
\* Accept header.
C9_OtherContentTypeKept ==
    (pc \in {"set_server_header", "done"} /\ ~TreatedAsHtmd) =>
        /\ HeaderCount(response, "Content-Type") = 1
        /\ HeaderValue(response, "Content-Type") = HeaderValue(before4, "Content-Type")
        /\ HeaderValue(response, "Content-Type") =
               IF is_success(matched)
               THEN extension_to_mime(Extension(FileOf(request.url)))
               ELSE IF response.data[1] = "file"
                    THEN IndexMime[CHOOSE i \in DOMAIN IndexOrder :
                                       IndexOrder[i] = response.data[2]]
                    ELSE "text/plain; charset=utf-8"

C9_Witness ==
    /\ pc = "done"
    /\ request.url = "/logo.png"
    /\ request.accept = <<"text/htmd">>
    /\ response.status_code = 200
    /\ HeaderValue(response, "Content-Type") = "image/png"

----------------------------------------------------------------------------
\* C10: every response that reaches Stage 4 has a Content-Type header, so the
\* lookup in current_response_has_htmd_content_type does not fail: the
\* non-success result of match_assets has been replaced, every producer sets
\* Content-Type and Stage 3 keeps it.
C10_ContentTypePresent ==
    /\ pc \in {"set_cache_time", "set_correct_mime_type"} =>
          HasHeader(response, "Content-Type")
    /\ pc = "panicked" => before4 = Response_empty_404

C10_Witness ==
    /\ pc = "set_correct_mime_type"
    /\ request.url = "/missing"
    /\ ~is_success(matched)
    /\ ~HasHeader(matched, "Content-Type")
    /\ HasHeader(response, "Content-Type")

====
